---- MODULE Spec2Model ----
(***************************************************************************)
(* Model of src/scripts/auto_merge_bot_prs.py: the eligibility evaluator   *)
(* should_auto_merge, the per-repository sweep auto_merge_repo_prs, the    *)
(* configuration loader and main.                                          *)
(*                                                                         *)
(* Strings that the code inspects character by character (the login that   *)
(* is lower-cased) are sequences of one-character strings.  A repository   *)
(* name is the sequence of its "/"-separated segments.  Python's None is   *)
(* the string "None"; the booleans of the hosting API are "True"/"False".  *)
(***************************************************************************)
EXTENDS Integers, Sequences, FiniteSets, TLC

\* ------------------------------------------------------------------ bounds
MaxCheckRuns == 2
MaxStatuses  == 1
MaxRepoNames == 2
MaxPulls     == 2

\* ------------------------------------------------------------- strings
UpperChars == <<"A","B","C","D","E","F","G","H","I","J","K","L","M",
                "N","O","P","Q","R","S","T","U","V","W","X","Y","Z">>
LowerChars == <<"a","b","c","d","e","f","g","h","i","j","k","l","m",
                "n","o","p","q","r","s","t","u","v","w","x","y","z">>

\* str.lower() on one character
LowerChar(c) ==
  IF \E k \in DOMAIN UpperChars : UpperChars[k] = c
  THEN LowerChars[CHOOSE k \in DOMAIN UpperChars : UpperChars[k] = c]
  ELSE c

\* a comparison that is case-sensitive: the login is used as it is
Lower_Identity(s) == s

\* str.lower()
Lower(s) == [k \in DOMAIN s |-> LowerChar(s[k])]

BotSuffix == <<"[","b","o","t","]">>
Dependabot == <<"d","e","p","e","n","d","a","b","o","t">>
PreCommitCi == <<"p","r","e","-","c","o","m","m","i","t","-","c","i">>
DashPreview == <<"-","p","r","e","v","i","e","w">>

\* the list literal of line 37-42
AllowedAuthors ==
  { PreCommitCi \o BotSuffix,
    Dependabot \o BotSuffix,
    Dependabot,
    Dependabot \o DashPreview \o BotSuffix }

\* logins a pull request's author can carry (pr.user.login)
Logins ==
  { Dependabot \o BotSuffix,
    <<"D","e","p","e","n","d","a","b","o","t">> \o BotSuffix,
    <<"P","R","E","-","C","O","M","M","I","T","-","C","I">> \o BotSuffix,
    Dependabot,
    Dependabot \o DashPreview \o BotSuffix,
    <<"r","e","n","o","v","a","t","e">> \o BotSuffix,
    <<"O","9","5","7">> }

\* ------------------------------------------------- pull request snapshot
MergeableValues == {"True", "False", "None"}
StatusStates == {"success", "pending", "failure", "error"}
RunStatuses == {"queued", "in_progress", "completed"}
RunConclusions == {"success", "neutral", "skipped", "failure"}
PassingConclusions == {"success", "neutral", "skipped"}

\* the name of the k-th check-run of a commit
RunNames == <<"lint", "test", "build", "docs", "deploy">>

\* a check-run as the checks API reports it: the conclusion is None until
\* the run has completed
CheckRunValues ==
  { [status |-> s, conclusion |-> "None"] : s \in RunStatuses \ {"completed"} }
  \cup
  { [status |-> "completed", conclusion |-> c] : c \in RunConclusions }

SeqsUpTo(S, n) == UNION { [1..k -> S] : k \in 0..n }

CheckRunLists ==
  { [k \in DOMAIN l |-> [name |-> RunNames[k], status |-> l[k].status,
                         conclusion |-> l[k].conclusion]] :
      l \in SeqsUpTo(CheckRunValues, MaxCheckRuns) }

\* the combined status of a commit: the hosting API reports "pending" when
\* the commit has no status context
CombinedStatuses ==
  { [total_count |-> 0, state |-> "pending"] }
  \cup
  { [total_count |-> n, state |-> s] : n \in 1..MaxStatuses, s \in StatusStates }

PullRequests ==
  { [login |-> a, mergeable |-> m, combined_status |-> cs, check_runs |-> rs] :
      a \in Logins, m \in MergeableValues,
      cs \in CombinedStatuses, rs \in CheckRunLists }

\* which API call of an evaluation raises GithubException, if any
Faults == {"none", "get_commits", "get_combined_status", "get_check_runs"}

\* ---------------------------------------------------- should_auto_merge
Reason(text, author, name, value) ==
  [text |-> text, author |-> author, name |-> name, value |-> value]

Return(should_merge, reason) ==
  [raised |-> FALSE, should_merge |-> should_merge, reason |-> reason]

Raised ==
  [raised |-> TRUE, should_merge |-> FALSE, reason |-> Reason("GithubException", <<>>, "", "")]

\* an unknown flag (None) taken for mergeable
Truthy_NotFalse(x) == x # "False"

\* bool(x) of a hosting-API flag
Truthy(x) == x = "True"

\* only a failed legacy status rejects: pending and error pass
StatusChecksFail_OnlyFailure(combined_status) ==
  combined_status.total_count > 0 /\ combined_status.state = "failure"

\* lines 54 and 65: has_statuses and combined_status.state != "success"
StatusChecksFail(combined_status) ==
  combined_status.total_count > 0 /\ combined_status.state # "success"

\* the loop walks the check-runs from the last to the first
RECURSIVE CheckRunsFrom_Reversed(_, _)
CheckRunsFrom_Reversed(runs, k) ==
  LET run == runs[Len(runs) + 1 - k]
  IN  IF k > Len(runs)
      THEN Return(TRUE, Reason("All checks passed.", <<>>, "", ""))
      ELSE IF run.status # "completed"
      THEN Return(FALSE, Reason("Check run '{name}' not completed: {status}.",
                                <<>>, run.name, run.status))
      ELSE IF run.conclusion \notin PassingConclusions
      THEN Return(FALSE, Reason("Check run '{name}' failed: {conclusion}.",
                                <<>>, run.name, run.conclusion))
      ELSE CheckRunsFrom_Reversed(runs, k + 1)

\* a check-run that is not completed is passed over
RECURSIVE CheckRunsFrom_SkipsIncomplete(_, _)
CheckRunsFrom_SkipsIncomplete(runs, k) ==
  IF k > Len(runs)
  THEN Return(TRUE, Reason("All checks passed.", <<>>, "", ""))
  ELSE IF runs[k].status # "completed"
  THEN CheckRunsFrom_SkipsIncomplete(runs, k + 1)
  ELSE IF runs[k].conclusion \notin PassingConclusions
  THEN Return(FALSE, Reason("Check run '{name}' failed: {conclusion}.",
                            <<>>, runs[k].name, runs[k].conclusion))
  ELSE CheckRunsFrom_SkipsIncomplete(runs, k + 1)

\* the for loop of lines 70-87 from position k on: the verdict of the first
\* check-run that is not completed or did not pass
RECURSIVE CheckRunsFrom(_, _)
CheckRunsFrom(runs, k) ==
  IF k > Len(runs)
  THEN Return(TRUE, Reason("All checks passed.", <<>>, "", ""))
  ELSE IF runs[k].status # "completed"
  THEN Return(FALSE, Reason("Check run '{name}' not completed: {status}.",
                            <<>>, runs[k].name, runs[k].status))
  ELSE IF runs[k].conclusion \notin PassingConclusions
  THEN Return(FALSE, Reason("Check run '{name}' failed: {conclusion}.",
                            <<>>, runs[k].name, runs[k].conclusion))
  ELSE CheckRunsFrom(runs, k + 1)

should_auto_merge(pr, fault) ==
  LET author == Lower(pr.login)
      combined_status == pr.combined_status
      check_runs == pr.check_runs
      has_statuses == combined_status.total_count > 0
      has_check_runs == Len(check_runs) > 0
  IN  IF author \notin AllowedAuthors
      THEN Return(FALSE, Reason("Author {author} is not a bot we auto-merge.",
                                author, "", ""))
      ELSE IF ~Truthy(pr.mergeable)
      THEN Return(FALSE, Reason("PR has merge conflicts.", <<>>, "", ""))
      ELSE IF fault # "none"
      THEN Raised
      ELSE IF ~has_statuses /\ ~has_check_runs
      THEN Return(TRUE, Reason("No CI checks configured, proceeding.", <<>>, "", ""))
      ELSE IF StatusChecksFail(combined_status)
      THEN Return(FALSE, Reason("Status checks: {state}.", <<>>, "",
                                combined_status.state))
      ELSE IF has_check_runs
      THEN CheckRunsFrom(check_runs, 1)
      ELSE Return(TRUE, Reason("All checks passed.", <<>>, "", ""))


\* --------------------------------------------------------- configuration
\* os.environ.get("GITHUB_TOKEN") and os.environ.get("GITHUB_USERNAME")
Tokens == {"None", "", "ghp_token"}
Username == <<"o957">>

\* the entries of config/repositories.json: "helpers", "o957/helpers", "o957/notes"
RepoNames == { <<"helpers">>, <<"o957", "helpers">>, <<"o957", "notes">> }

\* the repositories of the hosting service
FullNames == { <<"o957", "helpers">>, <<"o957", "notes">> }

\* config/repositories.json: absent, not JSON, JSON without the key, or JSON
\* with a "repositories" array
ConfigFiles ==
  { [kind |-> k, has_key |-> FALSE, repositories |-> <<>>] :
      k \in {"missing", "malformed", "json"} }
  \cup
  { [kind |-> "json", has_key |-> TRUE, repositories |-> l] :
      l \in SeqsUpTo(RepoNames, MaxRepoNames) }

load_repositories_config(file) ==
  IF file.kind = "missing" THEN <<>>
  ELSE IF file.kind = "malformed" THEN <<>>
  ELSE IF file.has_key THEN file.repositories ELSE <<>>

\* lines 223-226: a name without "/" is prefixed with the user name
full_repo_name(repo_name) ==
  IF Len(repo_name) = 1 THEN Username \o repo_name ELSE repo_name

\* ------------------------------------------------------- hosting service
\* the pull requests found in the repositories, in the order in which the
\* numbers are handed out: two that pass every rule, two that do not
SweepPullRequests ==
  << [login |-> Dependabot \o BotSuffix, mergeable |-> "True",
      combined_status |-> [total_count |-> 0, state |-> "pending"],
      check_runs |-> <<>>],
     [login |-> <<"P","r","e","-","C","o","m","m","i","t","-","C","I">> \o BotSuffix,
      mergeable |-> "True",
      combined_status |-> [total_count |-> 1, state |-> "success"],
      check_runs |-> <<[name |-> "lint", status |-> "completed",
                        conclusion |-> "skipped"]>>],
     [login |-> <<"O","9","5","7">>, mergeable |-> "True",
      combined_status |-> [total_count |-> 0, state |-> "pending"],
      check_runs |-> <<>>],
     [login |-> PreCommitCi \o BotSuffix, mergeable |-> "True",
      combined_status |-> [total_count |-> 0, state |-> "pending"],
      check_runs |-> <<[name |-> "lint", status |-> "completed",
                        conclusion |-> "failure"]>>] >>

\* where the pull requests of a repository start in SweepPullRequests
FirstPull(name) == IF name = <<"o957", "helpers">> THEN 0 ELSE 3

\* repo.get_pulls(state="open") at the start of a run, for a repository
\* that holds n open pull requests
OpenPulls(name, n) ==
  [k \in 1..n |->
     [number |-> k,
      snapshot |-> SweepPullRequests[((FirstPull(name) + k - 1)
                                        % Len(SweepPullRequests)) + 1]]]

Remotes ==
  { [name \in FullNames |-> [archived |-> a[name], pulls |-> OpenPulls(name, n[name])]] :
      a \in [FullNames -> BOOLEAN], n \in [FullNames -> 0..MaxPulls] }

NoPullRequest == CHOOSE p \in PullRequests : TRUE

VARIABLES
  pr, fault, ret,                  \* one evaluation: its input and its result
  token, config_file, remote,      \* the environment of a run
  pc, repo_names, i, repo,         \* main
  prs, j, results,                 \* auto_merge_repo_prs
  all_results, merged_count, failed_count, exit_code,
  calls                            \* history: the API calls made so far

evalVars == <<pr, fault, ret>>
runVars == <<token, config_file, remote, pc, repo_names, i, repo, prs, j,
             results, all_results, merged_count, failed_count, exit_code, calls>>
vars == <<pr, fault, ret, token, config_file, remote, pc, repo_names, i, repo,
          prs, j, results, all_results, merged_count, failed_count, exit_code,
          calls>>

\* ------------------------------------------------ the evaluator on its own
RunIdle ==
  /\ token = "None" /\ config_file = [kind |-> "missing", has_key |-> FALSE, repositories |-> <<>>]
  /\ remote = [r \in FullNames |-> [archived |-> FALSE, pulls |-> <<>>]]
  /\ pc = "idle" /\ repo_names = <<>> /\ i = 0 /\ repo = <<>>
  /\ prs = <<>> /\ j = 0 /\ results = <<>> /\ all_results = <<>>
  /\ merged_count = 0 /\ failed_count = 0 /\ exit_code = -1 /\ calls = <<>>

NotCalled == [raised |-> FALSE, should_merge |-> FALSE,
              reason |-> Reason("", <<>>, "", "")]

InitEval ==
  /\ pr \in PullRequests
  /\ fault \in Faults
  /\ ret = NotCalled
  /\ RunIdle

CallShouldAutoMerge ==
  /\ ret = NotCalled
  /\ ret' = should_auto_merge(pr, fault)
  /\ UNCHANGED <<pr, fault>>
  /\ UNCHANGED runVars

NextEval == CallShouldAutoMerge

SpecEval == InitEval /\ [][NextEval]_vars


\* ------------------------------------------------------------ a run
EvalIdle == pr = NoPullRequest /\ fault = "none" /\ ret = NotCalled

Init ==
  /\ EvalIdle
  /\ token \in Tokens
  /\ config_file \in ConfigFiles
  /\ remote \in Remotes
  /\ pc = "main"
  /\ repo_names = <<>> /\ i = 0 /\ repo = <<>>
  /\ prs = <<>> /\ j = 0 /\ results = <<>> /\ all_results = <<>>
  /\ merged_count = 0 /\ failed_count = 0 /\ exit_code = -1
  /\ calls = <<>>

\* one API call in the history
Call(op, name, number, outcome, listed) ==
  [op |-> op, visit |-> i, repo |-> name, pr |-> number, outcome |-> outcome,
   listed |-> listed]

\* the failed outcome written with the status of the merged one
Outcome_AlwaysMerged(name, number, status) ==
  [repo |-> name, pr |-> number, status |-> "merged"]

\* a merge outcome (lines 124-132 and 139-144)
Outcome(name, number, status) == [repo |-> name, pr |-> number, status |-> status]

CountStatus(rs, status) == Cardinality({ k \in DOMAIN rs : rs[k].status = status })

\* lines 204-206
TokenMissing ==
  /\ pc = "main"
  /\ token \in {"None", ""}
  /\ exit_code' = 1
  /\ pc' = "exit"
  /\ UNCHANGED <<token, config_file, remote, repo_names, i, repo, prs, j,
                 results, all_results, merged_count, failed_count, calls>>
  /\ UNCHANGED evalVars

\* lines 208-212
NoRepositories ==
  /\ pc = "main"
  /\ token \notin {"None", ""}
  /\ load_repositories_config(config_file) = <<>>
  /\ repo_names' = load_repositories_config(config_file)
  /\ exit_code' = 1
  /\ pc' = "exit"
  /\ UNCHANGED <<token, config_file, remote, i, repo, prs, j,
                 results, all_results, merged_count, failed_count, calls>>
  /\ UNCHANGED evalVars

\* lines 208-219
StartSweep ==
  /\ pc = "main"
  /\ token \notin {"None", ""}
  /\ load_repositories_config(config_file) # <<>>
  /\ repo_names' = load_repositories_config(config_file)
  /\ all_results' = <<>>
  /\ i' = 1
  /\ pc' = "repo"
  /\ UNCHANGED <<token, config_file, remote, repo, prs, j, results,
                 merged_count, failed_count, exit_code, calls>>
  /\ UNCHANGED evalVars

\* the exception is caught outside the for loop of line 221: the sweep ends
GetRepoRaises_EndsSweep ==
  /\ pc = "repo"
  /\ i <= Len(repo_names)
  /\ calls' = Append(calls, Call("get_repo", full_repo_name(repo_names[i]), 0,
                                 "raised", <<>>))
  /\ i' = Len(repo_names) + 1
  /\ UNCHANGED <<token, config_file, remote, pc, repo_names, repo, prs, j,
                 results, all_results, merged_count, failed_count, exit_code>>
  /\ UNCHANGED evalVars

\* lines 228-231 raise, 239-243: the repository is skipped
GetRepoRaises ==
  /\ pc = "repo"
  /\ i <= Len(repo_names)
  /\ calls' = Append(calls, Call("get_repo", full_repo_name(repo_names[i]), 0,
                                 "raised", <<>>))
  /\ i' = i + 1
  /\ UNCHANGED <<token, config_file, remote, pc, repo_names, repo, prs, j,
                 results, all_results, merged_count, failed_count, exit_code>>
  /\ UNCHANGED evalVars

\* lines 229-233
SkipArchived ==
  /\ pc = "repo"
  /\ i <= Len(repo_names)
  /\ remote[full_repo_name(repo_names[i])].archived
  /\ calls' = Append(calls, Call("get_repo", full_repo_name(repo_names[i]), 0,
                                 "archived", <<>>))
  /\ i' = i + 1
  /\ UNCHANGED <<token, config_file, remote, pc, repo_names, repo, prs, j,
                 results, all_results, merged_count, failed_count, exit_code>>
  /\ UNCHANGED evalVars

\* lines 229-236, 106-108 raise, 153-156, 237: no pull request is listed
GetPullsRaises ==
  /\ pc = "repo"
  /\ i <= Len(repo_names)
  /\ LET name == full_repo_name(repo_names[i])
     IN  /\ ~remote[name].archived
         /\ calls' = calls \o << Call("get_repo", name, 0, "ok", <<>>),
                                 Call("get_pulls", name, 0, "raised", <<>>) >>
         /\ all_results' = all_results \o <<>>
  /\ i' = i + 1
  /\ UNCHANGED <<token, config_file, remote, pc, repo_names, repo, prs, j,
                 results, merged_count, failed_count, exit_code>>
  /\ UNCHANGED evalVars

\* lines 229-236, 106-110: the open pull requests are listed
ListPulls ==
  /\ pc = "repo"
  /\ i <= Len(repo_names)
  /\ LET name == full_repo_name(repo_names[i])
     IN  /\ ~remote[name].archived
         /\ repo' = name
         /\ prs' = remote[name].pulls
         /\ calls' = calls \o
              << Call("get_repo", name, 0, "ok", <<>>),
                 Call("get_pulls", name, 0, "ok",
                      [k \in DOMAIN remote[name].pulls |->
                          remote[name].pulls[k].number]) >>
  /\ results' = <<>>
  /\ j' = 1
  /\ pc' = "pulls"
  /\ UNCHANGED <<token, config_file, remote, repo_names, i, all_results,
                 merged_count, failed_count, exit_code>>
  /\ UNCHANGED evalVars

\* lines 111, 150-151: the evaluator rejects, the pull request is skipped
SkipPull ==
  /\ pc = "pulls"
  /\ j <= Len(prs)
  /\ \E f \in Faults :
       LET verdict == should_auto_merge(prs[j].snapshot, f)
       IN  /\ ~verdict.raised
           /\ ~verdict.should_merge
           /\ calls' = Append(calls, Call("evaluate", repo, prs[j].number,
                                          "rejected", <<>>))
  /\ j' = j + 1
  /\ UNCHANGED <<token, config_file, remote, pc, repo_names, i, repo, prs,
                 results, all_results, merged_count, failed_count, exit_code>>
  /\ UNCHANGED evalVars

\* lines 111-136: the evaluator accepts and the merge call succeeds; the
\* hosting service closes the pull request
MergePull ==
  /\ pc = "pulls"
  /\ j <= Len(prs)
  /\ \E f \in Faults :
       LET verdict == should_auto_merge(prs[j].snapshot, f)
       IN  /\ ~verdict.raised
           /\ verdict.should_merge
  /\ calls' = calls \o << Call("evaluate", repo, prs[j].number, "accepted", <<>>),
                          Call("merge", repo, prs[j].number, "ok", <<>>) >>
  /\ results' = Append(results, Outcome(repo, prs[j].number, "merged"))
  /\ remote' = [remote EXCEPT ![repo].pulls =
                  SelectSeq(@, LAMBDA p : p.number # prs[j].number)]
  /\ j' = j + 1
  /\ UNCHANGED <<token, config_file, pc, repo_names, i, repo, prs,
                 all_results, merged_count, failed_count, exit_code>>
  /\ UNCHANGED evalVars

\* a merge call that raised is issued once more before the failure is recorded
MergeRaises_Retries ==
  /\ pc = "pulls"
  /\ j <= Len(prs)
  /\ \E f \in Faults :
       LET verdict == should_auto_merge(prs[j].snapshot, f)
       IN  /\ ~verdict.raised
           /\ verdict.should_merge
  /\ calls' = calls \o << Call("evaluate", repo, prs[j].number, "accepted", <<>>),
                          Call("merge", repo, prs[j].number, "raised", <<>>),
                          Call("merge", repo, prs[j].number, "raised", <<>>) >>
  /\ results' = Append(results, Outcome(repo, prs[j].number, "failed"))
  /\ j' = j + 1
  /\ UNCHANGED <<token, config_file, remote, pc, repo_names, i, repo, prs,
                 all_results, merged_count, failed_count, exit_code>>
  /\ UNCHANGED evalVars

\* lines 111-122 raise, 137-149: the merge call raises, the pull request
\* stays open
MergeRaises ==
  /\ pc = "pulls"
  /\ j <= Len(prs)
  /\ \E f \in Faults :
       LET verdict == should_auto_merge(prs[j].snapshot, f)
       IN  /\ ~verdict.raised
           /\ verdict.should_merge
  /\ calls' = calls \o << Call("evaluate", repo, prs[j].number, "accepted", <<>>),
                          Call("merge", repo, prs[j].number, "raised", <<>>) >>
  /\ results' = Append(results, Outcome(repo, prs[j].number, "failed"))
  /\ j' = j + 1
  /\ UNCHANGED <<token, config_file, remote, pc, repo_names, i, repo, prs,
                 all_results, merged_count, failed_count, exit_code>>
  /\ UNCHANGED evalVars

\* line 111 raises (an API call of the evaluator, lines 50-57), 153-156,
\* 237: the exception leaves the for loop of line 110
EvaluateRaises ==
  /\ pc = "pulls"
  /\ j <= Len(prs)
  /\ \E f \in Faults : should_auto_merge(prs[j].snapshot, f).raised
  /\ calls' = Append(calls, Call("evaluate", repo, prs[j].number, "raised", <<>>))
  /\ all_results' = all_results \o results
  /\ i' = i + 1
  /\ pc' = "repo"
  /\ UNCHANGED <<token, config_file, remote, repo_names, repo, prs, j,
                 results, merged_count, failed_count, exit_code>>
  /\ UNCHANGED evalVars

\* lines 110 (list exhausted), 156, 237, 243
ReturnResults ==
  /\ pc = "pulls"
  /\ j > Len(prs)
  /\ all_results' = all_results \o results
  /\ i' = i + 1
  /\ pc' = "repo"
  /\ UNCHANGED <<token, config_file, remote, repo_names, repo, prs, j,
                 results, merged_count, failed_count, exit_code, calls>>
  /\ UNCHANGED evalVars

\* a run with a failed merge returns 1
Summary_FailsOnFailedMerge ==
  /\ pc = "repo"
  /\ i > Len(repo_names)
  /\ merged_count' = CountStatus(all_results, "merged")
  /\ failed_count' = CountStatus(all_results, "failed")
  /\ exit_code' = IF failed_count' > 0 THEN 1 ELSE 0
  /\ pc' = "exit"
  /\ UNCHANGED <<token, config_file, remote, repo_names, i, repo, prs, j,
                 results, all_results, calls>>
  /\ UNCHANGED evalVars

\* lines 245-258
Summary ==
  /\ pc = "repo"
  /\ i > Len(repo_names)
  /\ merged_count' = CountStatus(all_results, "merged")
  /\ failed_count' = CountStatus(all_results, "failed")
  /\ exit_code' = 0
  /\ pc' = "exit"
  /\ UNCHANGED <<token, config_file, remote, repo_names, i, repo, prs, j,
                 results, all_results, calls>>
  /\ UNCHANGED evalVars

Next ==
  \/ TokenMissing
  \/ NoRepositories
  \/ StartSweep
  \/ GetRepoRaises
  \/ SkipArchived
  \/ GetPullsRaises
  \/ ListPulls
  \/ SkipPull
  \/ MergePull
  \/ MergeRaises
  \/ EvaluateRaises
  \/ ReturnResults
  \/ Summary

Spec == Init /\ [][Next]_vars

\* ------------------------------------------------- claims on the evaluator
Called == ret # NotCalled
Returned == Called /\ ~ret.raised

\* two characters that differ at most in case
SameCharIgnoringCase(c, d) ==
  \/ c = d
  \/ \E k \in DOMAIN UpperChars :
        {c, d} = {UpperChars[k], LowerChars[k]}

SameIgnoringCase(s, t) ==
  /\ Len(s) = Len(t)
  /\ \A k \in DOMAIN s : SameCharIgnoringCase(s[k], t[k])

IsAllowedBot(login) == \E a \in AllowedAuthors : SameIgnoringCase(login, a)

NoCi(p) == p.combined_status.total_count = 0 /\ Len(p.check_runs) = 0
LegacyFails(p) ==
  p.combined_status.total_count > 0 /\ p.combined_status.state # "success"
BadRun(run) ==
  run.status # "completed" \/ run.conclusion \notin {"success", "neutral", "skipped"}
BadRuns(p) == { k \in DOMAIN p.check_runs : BadRun(p.check_runs[k]) }
FirstBadRun(p) == CHOOSE k \in BadRuns(p) : \A m \in BadRuns(p) : k <= m

C2_NonSuccessStateRejects ==
  (Returned /\ pr.combined_status.state # "success") => ~ret.should_merge

\* C2 amended: with at least one legacy status context, a non-success
\* combined state rejects, whatever the check-runs are.
C2_NonSuccessStatusRejects ==
  (Returned /\ pr.combined_status.total_count > 0
            /\ pr.combined_status.state # "success") => ~ret.should_merge

C2_Witness ==
  /\ Returned
  /\ IsAllowedBot(pr.login) /\ pr.mergeable = "True"
  /\ pr.combined_status.total_count > 0
  /\ pr.combined_status.state = "pending"
  /\ Len(pr.check_runs) > 0 /\ BadRuns(pr) = {}
  /\ ~ret.should_merge

\* C3: a mergeable flag that is false or unknown rejects, whoever the author
\* and whatever the CI state; no API call is reached, so nothing is raised.
C3_NotMergeableRejects ==
  (Called /\ pr.mergeable # "True") => (~ret.raised /\ ~ret.should_merge)

C3_Witness ==
  /\ Called
  /\ pr.mergeable = "None"
  /\ IsAllowedBot(pr.login)
  /\ pr.combined_status.state = "success"
  /\ Len(pr.check_runs) > 0 /\ BadRuns(pr) = {}
  /\ ~ret.should_merge

C5_NoCiAccepted ==
  (Returned /\ IsAllowedBot(pr.login) /\ pr.mergeable = "True" /\ NoCi(pr))
    => /\ ret.should_merge
       /\ ret.reason.text = "No CI checks configured, proceeding."

C5_Witness ==
  /\ Returned
  /\ IsAllowedBot(pr.login) /\ pr.login \notin AllowedAuthors
  /\ pr.mergeable = "True" /\ NoCi(pr)
  /\ ret.should_merge


\* ------------------------------------------------------ claims on a run
Finished == pc = "exit" /\ exit_code = 0

CallsWhere(op, outcome) ==
  { k \in DOMAIN calls : calls[k].op = op /\ calls[k].outcome = outcome }
MergeCalls == { k \in DOMAIN calls : calls[k].op = "merge" }
MergeCallsFor(name, number) ==
  { k \in MergeCalls : calls[k].repo = name /\ calls[k].pr = number }
OutcomesFor(name, number, status) ==
  { k \in DOMAIN all_results :
      all_results[k] = [repo |-> name, pr |-> number, status |-> status] }

\* the pull requests (repository, number) with a merge call of that outcome
PullsWithMerge(outcome) ==
  { <<calls[k].repo, calls[k].pr>> : k \in CallsWhere("merge", outcome) }

\* every rejected pull request is left alone: no merge call in that visit
RejectedLeftAlone ==
  \A k \in CallsWhere("evaluate", "rejected") :
    /\ \A m \in MergeCalls :
         ~(calls[m].visit = calls[k].visit /\ calls[m].pr = calls[k].pr)
    /\ \A status \in {"merged", "failed"} :
         OutcomesFor(calls[k].repo, calls[k].pr, status) = {}

\* C6 as stated: the counts are numbers of pull requests.
C6_CountsArePulls ==
  Finished =>
    /\ merged_count = Cardinality(PullsWithMerge("ok"))
    /\ failed_count = Cardinality(PullsWithMerge("raised"))
    /\ RejectedLeftAlone

\* C6 amended: merged_count is the number of merge calls that succeeded and
\* failed_count the number that raised, one merge call per accepted
\* evaluation (a pull request listed again under a repeated repository
\* entry is counted again); a rejected pull request gets no merge call and
\* no outcome.
C6_CountsAreMergeCalls ==
  Finished =>
    /\ merged_count = Cardinality(CallsWhere("merge", "ok"))
    /\ failed_count = Cardinality(CallsWhere("merge", "raised"))
    /\ Cardinality(MergeCalls) = Cardinality(CallsWhere("evaluate", "accepted"))
    /\ \A k \in CallsWhere("evaluate", "accepted") :
         k < Len(calls) /\ calls[k + 1].op = "merge" /\ calls[k + 1].pr = calls[k].pr
                        /\ calls[k + 1].repo = calls[k].repo
    /\ RejectedLeftAlone

\* three eligible and one ineligible pull request across two repositories,
\* every merge call succeeding
C6_Witness ==
  /\ Finished
  /\ Cardinality(CallsWhere("evaluate", "accepted")) = 3
  /\ Cardinality(CallsWhere("evaluate", "rejected")) = 1
  /\ Cardinality({ calls[k].repo : k \in MergeCalls }) = 2
  /\ merged_count = 3 /\ failed_count = 0

\* C7: after an API call made for one pull request raised (in its
\* evaluation or in its merge), every pull request of every listing is
\* still evaluated and every configured repository is still fetched.
C7_PullErrorDoesNotAbort ==
  Finished =>
    /\ \A k \in CallsWhere("get_pulls", "ok") :
         \A n \in DOMAIN calls[k].listed :
           \E m \in DOMAIN calls :
             /\ calls[m].op = "evaluate"
             /\ calls[m].visit = calls[k].visit
             /\ calls[m].pr = calls[k].listed[n]
    /\ \A v \in DOMAIN repo_names :
         \E m \in DOMAIN calls : calls[m].op = "get_repo" /\ calls[m].visit = v

\* the calls that raised while a repository was accessed
RepoErrors == CallsWhere("get_repo", "raised") \cup CallsWhere("get_pulls", "raised")

\* the outcome a merge call leaves in the results
OutcomeOfCall(c) ==
  [repo |-> c.repo, pr |-> c.pr,
   status |-> IF c.outcome = "ok" THEN "merged" ELSE "failed"]

\* C8: an exception raised while a repository is accessed is caught: every
\* repository configured after it is still fetched, and every outcome of an
\* earlier repository is in the final results.
C8_RepositoryIsolation ==
  /\ (RepoErrors # {} /\ pc = "exit") => exit_code = 0
  /\ Finished =>
       \A k \in RepoErrors :
         /\ \A v \in (calls[k].visit + 1)..Len(repo_names) :
              \E m \in DOMAIN calls :
                /\ calls[m].op = "get_repo"
                /\ calls[m].visit = v
                /\ calls[m].repo = full_repo_name(repo_names[v])
         /\ \A m \in MergeCalls :
              calls[m].visit < calls[k].visit =>
                \E r \in DOMAIN all_results : all_results[r] = OutcomeOfCall(calls[m])
         /\ merged_count >= Cardinality({ m \in CallsWhere("merge", "ok") :
                                            calls[m].visit < calls[k].visit })

\* the first repository cannot be fetched, the second one is swept and a
\* pull request of it is merged
C8_Witness ==
  /\ Finished
  /\ \E k \in CallsWhere("get_repo", "raised") :
       /\ calls[k].visit = 1
       /\ \E m \in CallsWhere("merge", "ok") : calls[m].visit = 2
  /\ merged_count > 0

\* the pull requests with a merge call that raised: one merge call and, at
\* the end of the run, one "failed" outcome each
FailedOnce ==
  \A k \in CallsWhere("merge", "raised") :
    /\ Cardinality(MergeCallsFor(calls[k].repo, calls[k].pr)) = 1
    /\ pc = "exit" =>
         Cardinality(OutcomesFor(calls[k].repo, calls[k].pr, "failed")) = 1

\* C9 as stated: whatever the configured list, a pull request whose merge
\* call failed has one "failed" outcome and no second merge call.
C9_NoSecondMergeCall == FailedOnce

NoRepositoryTwice ==
  \A k, m \in DOMAIN repo_names :
    full_repo_name(repo_names[k]) = full_repo_name(repo_names[m]) => k = m

\* C9 amended: when no two entries of the configured list name the same
\* repository, a pull request whose merge call failed has one "failed"
\* outcome and no second merge call.
C9_NoRetry == NoRepositoryTwice => FailedOnce

C9_Witness ==
  /\ Finished
  /\ NoRepositoryTwice
  /\ Len(repo_names) > 1
  /\ CallsWhere("merge", "raised") # {}
  /\ CallsWhere("merge", "ok") # {}
  /\ failed_count = Cardinality(CallsWhere("merge", "raised"))

TokenIsMissing == token = "None" \/ token = ""
NothingConfigured ==
  \/ config_file.kind # "json"
  \/ ~config_file.has_key
  \/ Len(config_file.repositories) = 0

\* C10: main returns 1 exactly when the token is missing (unset or empty)
\* or no repository is configured, and then without any API call; every
\* other run returns 0.
C10_ExitCode ==
  pc = "exit" =>
    /\ exit_code \in {0, 1}
    /\ exit_code = 1 <=> (TokenIsMissing \/ NothingConfigured)
    /\ exit_code = 1 => calls = <<>>

\* a run that merges nothing, with a failed merge and a repository error
C10_Witness ==
  /\ pc = "exit"
  /\ exit_code = 0
  /\ merged_count = 0
  /\ failed_count > 0
  /\ RepoErrors # {}

====
